---- MODULE Spec2Model ----
(***************************************************************************)
(* Model of the coaching-call presentation application.                    *)
(*                                                                         *)
(*   - the Content Loader: GET /api/content (app/api/content/route.ts)     *)
(*   - the Presentation Navigator (app/presentation/page.tsx)              *)
(*   - the routes "/", "/presentation" and "/thank-you"                    *)
(*                                                                         *)
(* Strings that the code inspects character by character (the `path`       *)
(* query parameter) are sequences of symbols: "/", ".", the escapes "%2F"  *)
(* and "%2E", and words (runs of other characters, which contain neither a *)
(* dot, a slash nor a percent sign).  File texts and messages are opaque   *)
(* TLA+ strings.                                                           *)
(***************************************************************************)
EXTENDS Integers, Sequences, FiniteSets, TLC

VARIABLES
    route,           \* the page shown: "/", "/presentation" or "/thank-you"
    landingLoading,  \* `loading` of the landing page
    landingTimers,   \* number of pending 1000 ms timers of the landing page
    currentIndex,    \* Presentation: useState(0)
    content,         \* Presentation: useState("")
    loading,         \* Presentation: useState(false)
    timers,          \* pending 500 ms timers, oldest first; each holds the
                     \* currentIndex captured by its handleNext closure
    fetches,         \* fetches in flight, in issue order; each holds the index
    scrollTop,       \* TRUE when the window is scrolled to the top
    files,           \* the file system: absolute path -> file
    query,           \* Content Loader: the query of the last direct request
    response,        \* Content Loader: the response to that request
    readPath,        \* Content Loader: the read that request attempted
    hist,            \* the last operation and the index it started from
                     \* (for GET also the last response to the same query)
    scenario         \* how far the mounted Presentation is along the
                     \* navigation 0 -> 1 -> 0: "start", "shown", "moved",
                     \* "back", or "none" once it has left that path

vars == <<route, landingLoading, landingTimers, currentIndex, content, loading,
          timers, fetches, scrollTop, files, query, response, readPath, hist,
          scenario>>

navVars == <<route, landingLoading, landingTimers, currentIndex, content,
             loading, timers, fetches, scrollTop, scenario>>

loaderVars == <<query, response, readPath>>

-----------------------------------------------------------------------------
(* Bounds *)

MaxPending == 2         \* timers pending and fetches in flight, together
MaxQueryLen == 3        \* length of the enumerated raw query values

-----------------------------------------------------------------------------
(* Strings as sequences of symbols *)

\* String.prototype.includes
Includes(s, sub) ==
    \E i \in 1..(Len(s) - Len(sub) + 1) : SubSeq(s, i, i + Len(sub) - 1) = sub

\* encodeURIComponent: "/" is escaped, "." and word characters are not
EncodeSymbol(c) == IF c = "/" THEN "%2F" ELSE c

encodeURIComponent(s) == [i \in 1..Len(s) |-> EncodeSymbol(s[i])]

\* percent-decoding done by URLSearchParams
DecodeSymbol(c) ==
    IF c = "%2F" THEN "/" ELSE IF c = "%2E" THEN "." ELSE c

\* searchParams.get('path'): null when the parameter is absent,
\* otherwise its decoded value
SearchParamsGet(q) ==
    IF q.present
    THEN [present |-> TRUE, value |-> [i \in 1..Len(q.value) |-> DecodeSymbol(q.value[i])]]
    ELSE [present |-> FALSE, value |-> <<>>]

-----------------------------------------------------------------------------
(* Paths *)

RECURSIVE Split(_)
\* the segments of s between slashes (empty segments included)
Split(s) ==
    IF \A i \in 1..Len(s) : s[i] # "/"
    THEN <<s>>
    ELSE LET k == CHOOSE i \in 1..Len(s) :
                      s[i] = "/" /\ \A j \in 1..(i - 1) : s[j] # "/"
         IN <<SubSeq(s, 1, k - 1)>> \o Split(SubSeq(s, k + 1, Len(s)))

RECURSIVE Normalize(_, _)
\* path.normalize on the segments of an absolute path: empty and "."
\* segments vanish, ".." removes the segment before it
Normalize(segs, acc) ==
    IF segs = <<>> THEN acc
    ELSE LET h == Head(segs)
             t == Tail(segs)
         IN IF h = <<>> \/ h = <<".">> THEN Normalize(t, acc)
            ELSE IF h = <<".", ".">>
                 THEN Normalize(t, IF acc = <<>> THEN acc
                                   ELSE SubSeq(acc, 1, Len(acc) - 1))
                 ELSE Normalize(t, Append(acc, h))

cwd == <<"cwd">>          \* process.cwd(), the project root
publicDir == <<"public">>

\* path.join(process.cwd(), filePath): the 'public' argument left out
PathJoinNoPublic(filePath) ==
    [segs |-> Normalize(<<cwd>> \o Split(filePath), <<>>),
     trailingSlash |-> Len(filePath) > 0 /\ filePath[Len(filePath)] = "/"]

\* path.join(process.cwd(), 'public', filePath): the arguments are joined
\* with "/" and the result is normalized; a trailing slash is kept
PathJoin(filePath) ==
    [segs |-> Normalize(<<cwd, publicDir>> \o Split(filePath), <<>>),
     trailingSlash |-> Len(filePath) > 0 /\ filePath[Len(filePath)] = "/"]

-----------------------------------------------------------------------------
(* The sections and the file system *)

SectionWord ==
    <<"Section1", "Section2", "Section3", "Section4", "Section5",
      "Section6", "Section7", "Section8", "Section9", "Section10",
      "Section11", "Section12", "Section13", "Section14", "Section15">>

SectionTitle ==
    <<"1: Semantic HTML & ARIA Best Practices",
      "2: CSS for Accessibility & Performance",
      "3: Interactive Elements & State Management",
      "4: Optimizing Performance for Accessibility",
      "5: Building Keyboard-Accessible Components",
      "6: Enhancing Form Accessibility with ARIA & Validation",
      "7: Creating Accessible & Performant Data Tables",
      "8: Accessible & Performant Modals in React",
      "9: Creating Accessible & Performant Navigation Menus",
      "10: Building Accessible & Performant Forms in React",
      "11: Implementing Dark Mode with Accessibility in React",
      "12: Enhancing Performance with Lazy Loading and Code Splitting in React",
      "13: Optimizing Accessibility with Forms and Inputs",
      "14: Testing React Components for Accessibility and Performance",
      "15: Optimizing Rendering, Transitions, and Effects for Blazing-Fast Performance">>

\* the array with the content directory left out of one path
sectionFilesMisplaced ==
    [i \in 1..15 |->
        [title |-> SectionTitle[i],
         path |-> IF i = 2 THEN <<"/", SectionWord[i], ".", "md">>
                  ELSE <<"/", "content", "/", SectionWord[i], ".", "md">>]]

\* the array of (title, path) pairs; the code's index i is position i + 1
sectionFiles ==
    [i \in 1..15 |->
        [title |-> SectionTitle[i],
         path |-> <<"/", "content", "/", SectionWord[i], ".", "md">>]]

N == Len(sectionFiles)

\* the text of each Section file, an opaque payload
SectionText ==
    <<"text of Section1.md", "text of Section2.md", "text of Section3.md",
      "text of Section4.md", "text of Section5.md", "text of Section6.md",
      "text of Section7.md", "text of Section8.md", "text of Section9.md",
      "text of Section10.md", "text of Section11.md", "text of Section12.md",
      "text of Section13.md", "text of Section14.md", "text of Section15.md">>

\* where Section file i lies on disk
SectionFilePath(i) ==
    <<cwd, publicDir, <<"content">>, <<SectionWord[i], ".", "md">>>>

\* a file of the project root, outside the public directory
ConfigFilePath == <<cwd, <<"next", ".", "config", ".", "ts">>>>

\* the deployed tree: the fifteen Section files under public/content and the
\* files of the project root
InitialFiles ==
    [p \in {SectionFilePath(i) : i \in 1..15} \cup {ConfigFilePath} |->
        IF p = ConfigFilePath
        THEN [readable |-> TRUE, text |-> "text of next.config.ts"]
        ELSE [readable |-> TRUE,
              text |-> SectionText[CHOOSE i \in 1..15 : SectionFilePath(i) = p]]]

\* fs.readFile(fullPath, 'utf8'): the text, or a thrown error when the path
\* names no file (ENOENT), names a directory (EISDIR), goes through a file
\* (ENOTDIR) or may not be read (EACCES)
ReadFile(fullPath, fs) ==
    IF /\ ~fullPath.trailingSlash
       /\ fullPath.segs \in DOMAIN fs
       /\ fs[fullPath.segs].readable
    THEN [ok |-> TRUE, text |-> fs[fullPath.segs].text]
    ELSE [ok |-> FALSE, text |-> ""]

-----------------------------------------------------------------------------
(* The Content Loader *)

NoRead == [attempted |-> FALSE, segs |-> <<>>, trailingSlash |-> FALSE]

NoResponse == [status |-> 0, body |-> [none |-> TRUE]]

\* the guard with startsWith('..') in place of includes('..')
InvalidPathStartsWith(filePath) ==
    \/ ~filePath.present
    \/ filePath.value = <<>>
    \/ /\ Len(filePath.value) >= 2
       /\ SubSeq(filePath.value, 1, 2) = <<".", ".">>

\* the guard of GET: !filePath || filePath.includes('..')
InvalidPath(filePath) ==
    \/ ~filePath.present
    \/ filePath.value = <<>>
    \/ Includes(filePath.value, <<".", ".">>)

\* GET without the try/catch: a failed read surfaces as the framework's 500
GETNoCatch(q, fs) ==
    LET filePath == SearchParamsGet(q)
    IN IF InvalidPath(filePath)
       THEN [status |-> 400, body |-> [error |-> "Invalid path"], read |-> NoRead]
       ELSE LET fullPath == PathJoin(filePath.value)
                fileContent == ReadFile(fullPath, fs)
                read == [attempted |-> TRUE, segs |-> fullPath.segs,
                         trailingSlash |-> fullPath.trailingSlash]
            IN IF fileContent.ok
               THEN [status |-> 200, body |-> [content |-> fileContent.text],
                     read |-> read]
               ELSE [status |-> 500, body |-> [none |-> TRUE], read |-> read]

\* GET without the await on readFile: the pending promise serializes as {}
GETNoAwait(q, fs) ==
    LET filePath == SearchParamsGet(q)
    IN IF InvalidPath(filePath)
       THEN [status |-> 400, body |-> [error |-> "Invalid path"], read |-> NoRead]
       ELSE LET fullPath == PathJoin(filePath.value)
                read == [attempted |-> TRUE, segs |-> fullPath.segs,
                         trailingSlash |-> fullPath.trailingSlash]
            IN [status |-> 200, body |-> [content |-> "{}"], read |-> read]

\* GET(request) against the file system fs: the response, and the read the
\* handler attempted
GET(q, fs) ==
    LET filePath == SearchParamsGet(q)
    IN IF InvalidPath(filePath)
       THEN [status |-> 400, body |-> [error |-> "Invalid path"], read |-> NoRead]
       ELSE LET fullPath == PathJoin(filePath.value)
                fileContent == ReadFile(fullPath, fs)
                read == [attempted |-> TRUE, segs |-> fullPath.segs,
                         trailingSlash |-> fullPath.trailingSlash]
            IN IF fileContent.ok
               THEN [status |-> 200, body |-> [content |-> fileContent.text],
                     read |-> read]
               ELSE [status |-> 404, body |-> [error |-> "File not found"],
                     read |-> read]

-----------------------------------------------------------------------------
(* The Presentation Navigator *)

\* a timer or a fetch of a Presentation instance that has been unmounted:
\* its state updates are dropped
Stale == -1

Placeholder == "# Error Loading Content\n\nSorry, the content could not be loaded."

\* sectionFiles[i] of the code (zero-based)
SectionAt(i) == sectionFiles[i + 1]

\* the request fetchContent sends for index i
FetchQuery(i) ==
    [present |-> TRUE, value |-> encodeURIComponent(SectionAt(i).path)]

\* the value of a key of a parsed JSON body is truthy
Truthy(body, key) == key \in DOMAIN body /\ body[key] # ""

\* fetchContent displaying the server's error message as the content
FetchedContentShowsError(resp) ==
    IF Truthy(resp.body, "error") THEN resp.body.error ELSE resp.body.content

\* fetchContent without the test on data.error: data.content is undefined
\* for an error body
FetchedContentIgnoresError(resp) ==
    IF "content" \in DOMAIN resp.body THEN resp.body.content ELSE "undefined"

\* fetchContent testing !data.content in place of data.error
FetchedContentFalsyContent(resp) ==
    IF ~Truthy(resp.body, "content") THEN Placeholder ELSE resp.body.content

\* fetchContent once the response has arrived: the content it sets
FetchedContent(resp) ==
    IF Truthy(resp.body, "error") THEN Placeholder ELSE resp.body.content

\* the effect without its dependency array: it runs after every update
IssueFetchAlways(old, new) == Append(fetches, new)

\* the effect [currentIndex]: a fetch is issued when the index has changed
IssueFetch(old, new) == IF new # old THEN Append(fetches, new) ELSE fetches

\* the Previous button is disabled
PrevDisabled == currentIndex = 0

\* the Finish button rendered one section early
FinishPresentEarly == currentIndex >= N - 2

\* the Finish button is rendered in place of the Next button
FinishPresent == currentIndex = N - 1

\* the Next button is rendered: the other branch of the same conditional
NextPresent == ~FinishPresent

\* handleNext reading the index of the render in which the timer fires
NextIndexCurrent(captured, current) ==
    IF current < N - 1 THEN current + 1 ELSE current

\* the index handleNext sets, from the currentIndex its closure captured
NextIndex(captured, current) ==
    IF captured < N - 1 THEN captured + 1 ELSE current

\* handlePrev without its bound check
PrevIndexUnguarded(current) == current - 1

\* handlePrev with the bound check off by one
PrevIndexFromOne(current) == IF current > 1 THEN current - 1 ELSE current

\* handlePrev with >= in place of >
PrevIndexNonNegative(current) == IF current >= 0 THEN current - 1 ELSE current

\* the index handlePrev sets
PrevIndex(current) == IF current > 0 THEN current - 1 ELSE current

Staled(seq) == [i \in 1..Len(seq) |-> Stale]

\* the asynchronous work outstanding: timers pending and fetches in flight
Pending == landingTimers + Len(timers) + Len(fetches)

\* the navigation 0 -> 1 -> 0 of one mounted Presentation, followed as the
\* index moves from old to new: "shown" (section 0 loaded and displayed)
\* becomes "moved" on 0 -> 1, "moved" becomes "back" on 1 -> 0, and any
\* other change of index leaves the path
ScenarioAfterMove(old, new) ==
    IF new = old THEN scenario
    ELSE IF scenario = "shown" /\ old = 0 /\ new = 1 THEN "moved"
    ELSE IF scenario = "moved" /\ old = 1 /\ new = 0 THEN "back"
    ELSE "none"

\* the same, as a fetch of the mounted Presentation completes: the first
\* fetch, for section 0, either displays its text or fails
ScenarioAfterFetch(loaded) ==
    IF scenario = "start"
    THEN IF loaded THEN "shown" ELSE "none"
    ELSE scenario

\* the landing page: handleClick
HandleClick ==
    /\ route = "/"
    /\ Pending < MaxPending
    /\ landingLoading' = TRUE
    /\ landingTimers' = landingTimers + 1
    /\ hist' = [op |-> "handleClick", idx |-> currentIndex]
    /\ UNCHANGED <<route, currentIndex, content, loading, timers, fetches,
                   scrollTop, files, query, response, readPath, scenario>>

\* a Presentation whose state is kept in a store that outlives the mount
LandingTimerFireKeepsState ==
    /\ landingTimers > 0
    /\ landingTimers' = landingTimers - 1
    /\ IF route = "/presentation"
       THEN /\ hist' = [op |-> "push", idx |-> currentIndex]
            /\ UNCHANGED <<route, currentIndex, content, loading, timers,
                           fetches, scenario>>
       ELSE /\ route' = "/presentation"
            /\ loading' = FALSE
            /\ timers' = Staled(timers)
            /\ fetches' = Append(Staled(fetches), currentIndex)
            /\ hist' = [op |-> "mount", idx |-> currentIndex]
            /\ scenario' = "start"
            /\ UNCHANGED <<currentIndex, content>>
    /\ UNCHANGED <<landingLoading, scrollTop, files, query, response, readPath>>

\* the landing page's timer: router.push("/presentation"); entering the route
\* mounts a new Presentation, whose effect fetches section 0
LandingTimerFire ==
    /\ landingTimers > 0
    /\ landingTimers' = landingTimers - 1
    /\ IF route = "/presentation"
       THEN /\ hist' = [op |-> "push", idx |-> currentIndex]
            /\ UNCHANGED <<route, currentIndex, content, loading, timers,
                           fetches, scenario>>
       ELSE /\ route' = "/presentation"
            /\ currentIndex' = 0
            /\ content' = ""
            /\ loading' = FALSE
            /\ timers' = Staled(timers)
            /\ fetches' = Append(Staled(fetches), 0)
            /\ hist' = [op |-> "mount", idx |-> currentIndex]
            /\ scenario' = "start"
    /\ UNCHANGED <<landingLoading, scrollTop, files, query, response, readPath>>

\* handleSectionChange that also calls handleNext at once
HandleSectionChangeImmediate ==
    /\ route = "/presentation"
    /\ NextPresent
    /\ Pending < MaxPending
    /\ loading' = TRUE
    /\ timers' = Append(timers, currentIndex)
    /\ currentIndex' = currentIndex + 1
    /\ scrollTop' = TRUE
    /\ fetches' = Append(fetches, currentIndex + 1)
    /\ hist' = [op |-> "handleSectionChange", idx |-> currentIndex]
    /\ scenario' = ScenarioAfterMove(currentIndex, currentIndex + 1)
    /\ UNCHANGED <<route, landingLoading, landingTimers, content, files, query,
                   response, readPath>>

\* the Next button: handleSectionChange
HandleSectionChange ==
    /\ route = "/presentation"
    /\ NextPresent
    /\ Pending < MaxPending
    /\ loading' = TRUE
    /\ timers' = Append(timers, currentIndex)
    /\ hist' = [op |-> "handleSectionChange", idx |-> currentIndex]
    /\ UNCHANGED <<route, landingLoading, landingTimers, currentIndex, content,
                   fetches, scrollTop, files, query, response, readPath,
                   scenario>>

\* a Next timer whose click came after an earlier Next timer had fired is
\* due more than 1000 ms after the mount, hence after every 1000 ms timer
\* the landing page started before the mount; such a click is one made at
\* an index above 0
DueAfterLandingTimers(captured) == captured # Stale /\ captured >= 1

\* the timer started with setInterval: it is armed again as it fires
TimerFireInterval ==
    /\ timers # <<>>
    /\ DueAfterLandingTimers(Head(timers)) => landingTimers = 0
    /\ timers' = Append(Tail(timers), Head(timers))
    /\ scrollTop' = TRUE
    /\ IF Head(timers) = Stale
       THEN /\ hist' = [op |-> "staleTimer", idx |-> currentIndex]
            /\ UNCHANGED <<currentIndex, loading, fetches, scenario>>
       ELSE LET new == NextIndex(Head(timers), currentIndex)
            IN /\ currentIndex' = new
               /\ loading' = FALSE
               /\ fetches' = IssueFetch(currentIndex, new)
               /\ hist' = [op |-> "handleNext", idx |-> currentIndex]
               /\ scenario' = ScenarioAfterMove(currentIndex, new)
    /\ UNCHANGED <<route, landingLoading, landingTimers, content, files, query,
                   response, readPath>>

\* the timer's callback without setLoading(false)
TimerFireKeepsLoading ==
    /\ timers # <<>>
    /\ DueAfterLandingTimers(Head(timers)) => landingTimers = 0
    /\ timers' = Tail(timers)
    /\ scrollTop' = TRUE
    /\ IF Head(timers) = Stale
       THEN /\ hist' = [op |-> "staleTimer", idx |-> currentIndex]
            /\ UNCHANGED <<currentIndex, fetches, scenario>>
       ELSE LET new == NextIndex(Head(timers), currentIndex)
            IN /\ currentIndex' = new
               /\ fetches' = IssueFetch(currentIndex, new)
               /\ hist' = [op |-> "handleNext", idx |-> currentIndex]
               /\ scenario' = ScenarioAfterMove(currentIndex, new)
    /\ UNCHANGED <<route, landingLoading, landingTimers, content, loading,
                   files, query, response, readPath>>

\* the oldest 500 ms timer fires: handleNext(), then setLoading(false)
TimerFire ==
    /\ timers # <<>>
    /\ DueAfterLandingTimers(Head(timers)) => landingTimers = 0
    /\ timers' = Tail(timers)
    /\ scrollTop' = TRUE
    /\ IF Head(timers) = Stale
       THEN /\ hist' = [op |-> "staleTimer", idx |-> currentIndex]
            /\ UNCHANGED <<currentIndex, loading, fetches, scenario>>
       ELSE LET new == NextIndex(Head(timers), currentIndex)
            IN /\ currentIndex' = new
               /\ loading' = FALSE
               /\ fetches' = IssueFetch(currentIndex, new)
               /\ hist' = [op |-> "handleNext", idx |-> currentIndex]
               /\ scenario' = ScenarioAfterMove(currentIndex, new)
    /\ UNCHANGED <<route, landingLoading, landingTimers, content, files, query,
                   response, readPath>>

\* handlePrev with window.scrollTo inside the if
HandlePrevScrollsOnChange ==
    /\ route = "/presentation"
    /\ LET new == PrevIndex(currentIndex)
       IN /\ new # currentIndex => Pending < MaxPending
          /\ currentIndex' = new
          /\ fetches' = IssueFetch(currentIndex, new)
          /\ hist' = [op |-> "handlePrev", idx |-> currentIndex]
          /\ scenario' = ScenarioAfterMove(currentIndex, new)
          /\ scrollTop' = IF new # currentIndex THEN TRUE ELSE scrollTop
    /\ UNCHANGED <<route, landingLoading, landingTimers, content, loading,
                   timers, files, query, response, readPath>>

\* handlePrev, the handler of the Previous button (which is disabled at
\* index 0, see PrevDisabled)
HandlePrev ==
    /\ route = "/presentation"
    /\ LET new == PrevIndex(currentIndex)
       IN /\ new # currentIndex => Pending < MaxPending
          /\ currentIndex' = new
          /\ fetches' = IssueFetch(currentIndex, new)
          /\ hist' = [op |-> "handlePrev", idx |-> currentIndex]
          /\ scenario' = ScenarioAfterMove(currentIndex, new)
    /\ scrollTop' = TRUE
    /\ UNCHANGED <<route, landingLoading, landingTimers, content, loading,
                   timers, files, query, response, readPath>>

\* handleFinish that rewinds the presentation before leaving
HandleFinishResets ==
    /\ route = "/presentation"
    /\ FinishPresent
    /\ route' = "/thank-you"
    /\ currentIndex' = 0
    /\ timers' = Staled(timers)
    /\ fetches' = Append(Staled(fetches), Stale)
    /\ hist' = [op |-> "handleFinish", idx |-> currentIndex]
    /\ scenario' = "none"
    /\ UNCHANGED <<landingLoading, landingTimers, content, loading,
                   scrollTop, files, query, response, readPath>>

\* handleFinish pushing the home page
HandleFinishHome ==
    /\ route = "/presentation"
    /\ FinishPresent
    /\ route' = "/"
    /\ landingLoading' = FALSE
    /\ timers' = Staled(timers)
    /\ fetches' = Staled(fetches)
    /\ hist' = [op |-> "handleFinish", idx |-> currentIndex]
    /\ scenario' = "none"
    /\ UNCHANGED <<landingTimers, currentIndex, content, loading,
                   scrollTop, files, query, response, readPath>>

\* the Finish button: handleFinish; leaving the route unmounts Presentation
HandleFinish ==
    /\ route = "/presentation"
    /\ FinishPresent
    /\ route' = "/thank-you"
    /\ timers' = Staled(timers)
    /\ fetches' = Staled(fetches)
    /\ hist' = [op |-> "handleFinish", idx |-> currentIndex]
    /\ scenario' = "none"
    /\ UNCHANGED <<landingLoading, landingTimers, currentIndex, content, loading,
                   scrollTop, files, query, response, readPath>>

\* handleGoHome pushing the previous page instead of the home page
HandleGoHomeToPresentation ==
    /\ route = "/thank-you"
    /\ route' = "/presentation"
    /\ currentIndex' = 0
    /\ content' = ""
    /\ loading' = FALSE
    /\ timers' = Staled(timers)
    /\ fetches' = Append(Staled(fetches), 0)
    /\ hist' = [op |-> "handleGoHome", idx |-> currentIndex]
    /\ scenario' = "start"
    /\ UNCHANGED <<landingLoading, landingTimers, scrollTop, files, query,
                   response, readPath>>

\* the Home button of the thank-you page: handleGoHome; the landing page is
\* mounted anew
HandleGoHome ==
    /\ route = "/thank-you"
    /\ route' = "/"
    /\ landingLoading' = FALSE
    /\ hist' = [op |-> "handleGoHome", idx |-> currentIndex]
    /\ UNCHANGED <<landingTimers, currentIndex, content, loading, timers,
                   fetches, scrollTop, files, query, response, readPath,
                   scenario>>

\* fetchContent that drops a response which is not for the current index
FetchResponseSequenced(k) ==
    /\ k \in 1..Len(fetches)
    /\ fetches' = SubSeq(fetches, 1, k - 1) \o SubSeq(fetches, k + 1, Len(fetches))
    /\ IF fetches[k] = Stale \/ fetches[k] # currentIndex
       THEN UNCHANGED <<content, scenario>>
       ELSE /\ content' = FetchedContent(GET(FetchQuery(fetches[k]), files))
            /\ scenario' = ScenarioAfterFetch(content' # Placeholder)
    /\ hist' = [op |-> "fetchResponse", idx |-> currentIndex]
    /\ UNCHANGED <<route, landingLoading, landingTimers, currentIndex, loading,
                   timers, scrollTop, files, query, response, readPath>>

\* the k-th fetch in flight completes with a response of the Content Loader
FetchResponse(k) ==
    /\ k \in 1..Len(fetches)
    /\ fetches' = SubSeq(fetches, 1, k - 1) \o SubSeq(fetches, k + 1, Len(fetches))
    /\ IF fetches[k] = Stale
       THEN UNCHANGED <<content, scenario>>
       ELSE /\ content' = FetchedContent(GET(FetchQuery(fetches[k]), files))
            /\ scenario' = ScenarioAfterFetch(content' # Placeholder)
    /\ hist' = [op |-> "fetchResponse", idx |-> currentIndex]
    /\ UNCHANGED <<route, landingLoading, landingTimers, currentIndex, loading,
                   timers, scrollTop, files, query, response, readPath>>

\* fetchContent that fetches again from its catch block
FetchFailureRetries(k) ==
    /\ k \in 1..Len(fetches)
    /\ fetches' = Append(SubSeq(fetches, 1, k - 1) \o SubSeq(fetches, k + 1, Len(fetches)),
                         fetches[k])
    /\ IF fetches[k] = Stale
       THEN UNCHANGED <<content, scenario>>
       ELSE /\ content' = Placeholder
            /\ scenario' = ScenarioAfterFetch(FALSE)
    /\ hist' = [op |-> "fetchFailure", idx |-> currentIndex]
    /\ UNCHANGED <<route, landingLoading, landingTimers, currentIndex, loading,
                   timers, scrollTop, files, query, response, readPath>>

\* the k-th fetch in flight fails: fetch rejects or the body is not JSON
FetchFailure(k) ==
    /\ k \in 1..Len(fetches)
    /\ fetches' = SubSeq(fetches, 1, k - 1) \o SubSeq(fetches, k + 1, Len(fetches))
    /\ IF fetches[k] = Stale
       THEN UNCHANGED <<content, scenario>>
       ELSE /\ content' = Placeholder
            /\ scenario' = ScenarioAfterFetch(FALSE)
    /\ hist' = [op |-> "fetchFailure", idx |-> currentIndex]
    /\ UNCHANGED <<route, landingLoading, landingTimers, currentIndex, loading,
                   timers, scrollTop, files, query, response, readPath>>

\* the user scrolls away from the top
UserScroll ==
    /\ scrollTop
    /\ scrollTop' = FALSE
    /\ hist' = [op |-> "scroll", idx |-> currentIndex]
    /\ UNCHANGED <<route, landingLoading, landingTimers, currentIndex, content,
                   loading, timers, fetches, files, query, response, readPath,
                   scenario>>

Init ==
    /\ route = "/"
    /\ landingLoading = FALSE
    /\ landingTimers = 0
    /\ currentIndex = 0
    /\ content = ""
    /\ loading = FALSE
    /\ timers = <<>>
    /\ fetches = <<>>
    /\ scrollTop = TRUE
    /\ files = InitialFiles
    /\ query = [present |-> FALSE, value |-> <<>>]
    /\ response = NoResponse
    /\ readPath = NoRead
    /\ hist = [op |-> "init", idx |-> 0]
    /\ scenario = "none"

Next ==
    \/ HandleClick
    \/ LandingTimerFire
    \/ HandleSectionChange
    \/ TimerFire
    \/ HandlePrev
    \/ HandleFinish
    \/ HandleGoHome
    \/ \E k \in 1..MaxPending + 1 : FetchResponse(k)
    \/ \E k \in 1..MaxPending + 1 : FetchFailure(k)
    \/ UserScroll

Spec == Init /\ [][Next]_vars

\* every fetch settles: weak fairness of
\* \E k : FetchResponse(k) \/ FetchFailure(k), an action that is enabled
\* exactly when a fetch is in flight, written with that enabling condition
FetchesSettle ==
    \/ []<>(fetches = <<>>)
    \/ []<><<hist'.op \in {"fetchResponse", "fetchFailure"}>>_vars

\* the event loop runs every timer that is due, and every fetch settles
Fairness ==
    /\ WF_vars(TimerFire)
    /\ WF_vars(LandingTimerFire)
    /\ FetchesSettle

FairSpec == Spec /\ Fairness

-----------------------------------------------------------------------------
(* The application on a deployment with a Section file missing *)

\* the deployed tree without public/content/Section2.md and with an empty
\* public/content/Section3.md
DegradedFiles ==
    [p \in DOMAIN InitialFiles \ {SectionFilePath(2)} |->
        IF p = SectionFilePath(3) THEN [readable |-> TRUE, text |-> ""]
        ELSE InitialFiles[p]]

InitDeploy ==
    /\ route = "/"
    /\ landingLoading = FALSE
    /\ landingTimers = 0
    /\ currentIndex = 0
    /\ content = ""
    /\ loading = FALSE
    /\ timers = <<>>
    /\ fetches = <<>>
    /\ scrollTop = TRUE
    /\ files = DegradedFiles
    /\ query = [present |-> FALSE, value |-> <<>>]
    /\ response = NoResponse
    /\ readPath = NoRead
    /\ hist = [op |-> "init", idx |-> 0]
    /\ scenario = "none"

SpecDeploy == InitDeploy /\ [][Next]_vars

-----------------------------------------------------------------------------
(* The Content Loader under direct requests, on a file system that changes *)

RECURSIVE SeqsUpTo(_, _)
\* the sequences over S of length at most n
SeqsUpTo(S, n) ==
    IF n = 0 THEN {<<>>}
    ELSE LET shorter == SeqsUpTo(S, n - 1)
         IN shorter \cup {Append(t, c) : t \in shorter, c \in S}

QueryAlphabet == {"/", ".", "a", "%2E"}

\* raw query values that name a Section file, a directory, a missing file,
\* and files reached through a parent-directory segment
NamedQueries ==
    {encodeURIComponent(sectionFiles[i].path) : i \in 1..N}
      \cup {sectionFiles[i].path : i \in 1..N}
      \cup {<<"/", "content">>,
            <<"/", "content", "/">>,
            <<"/", "content", "/", "Section1", ".", "md", "/">>,
            <<"content", "/", ".", "/", "Section1", ".", "md">>,
            <<"/", "content", "/", "Section16", ".", "md">>,
            <<"/", "content", "/", "a">>,
            <<"/", "content", "/", ".", ".", "/", "content", "/", "Section1", ".", "md">>,
            <<"%2F", "content", "%2F", "%2E", "%2E", "%2F", "a">>,
            <<"a", "/", ".", ".", "/", "a">>,
            <<".", ".", "/", "next", ".", "config", ".", "ts">>,
            <<"/", "content", "/", "Section1", ".", ".", "md">>}

QueryInputs ==
    {[present |-> FALSE, value |-> <<>>]}
      \cup {[present |-> TRUE, value |-> v] :
                v \in SeqsUpTo(QueryAlphabet, MaxQueryLen) \cup NamedQueries}

\* files that come and go while the server runs
ScratchPaths == {<<cwd, publicDir, <<"a">>>>}

ScratchTexts == {"", "v1"}

\* GET /api/content answering a repeated query from its last response
RequestCached(q) ==
    /\ q \in QueryInputs
    /\ LET r == GET(q, files)
       IN /\ query' = q
          /\ response' = IF q = query /\ response.status # 0 THEN response
                         ELSE [status |-> r.status, body |-> r.body]
          /\ readPath' = r.read
    /\ hist' = [op |-> "GET", idx |-> currentIndex,
                prev |-> IF q = query THEN response ELSE NoResponse]
    /\ UNCHANGED <<navVars, files>>

\* GET /api/content with query q
Request(q) ==
    /\ q \in QueryInputs
    /\ LET r == GET(q, files)
       IN /\ query' = q
          /\ response' = [status |-> r.status, body |-> r.body]
          /\ readPath' = r.read
    /\ hist' = [op |-> "GET", idx |-> currentIndex,
                prev |-> IF q = query THEN response ELSE NoResponse]
    /\ UNCHANGED <<navVars, files>>

\* a file is written or its permissions change
WriteFile(p, readable, text) ==
    /\ p \in ScratchPaths
    /\ files' = [x \in DOMAIN files \cup {p} |->
                    IF x = p THEN [readable |-> readable, text |-> text]
                    ELSE files[x]]
    /\ hist' = [op |-> "writeFile", idx |-> currentIndex]
    /\ UNCHANGED <<navVars, loaderVars>>

\* a file is removed
RemoveFile(p) ==
    /\ p \in ScratchPaths \cap DOMAIN files
    /\ files' = [x \in DOMAIN files \ {p} |-> files[x]]
    /\ hist' = [op |-> "removeFile", idx |-> currentIndex]
    /\ UNCHANGED <<navVars, loaderVars>>

InitLoader == Init

NextLoader ==
    \/ \E q \in QueryInputs : Request(q)
    \/ \E p \in ScratchPaths, readable \in BOOLEAN, text \in ScratchTexts :
           WriteFile(p, readable, text)
    \/ \E p \in ScratchPaths : RemoveFile(p)

SpecLoader == InitLoader /\ [][NextLoader]_vars

-----------------------------------------------------------------------------
(* Properties of the Presentation Navigator (Spec) *)

\* C1: in every reachable state currentIndex is an integer with
\* 0 <= currentIndex <= N-1, so sectionFiles[currentIndex] is defined
C1_IndexInRange ==
    /\ currentIndex \in 0..(N - 1)
    /\ currentIndex + 1 \in DOMAIN sectionFiles

\* the last section has been reached by a delayed advance
C1_Witness ==
    /\ hist.op = "handleNext"
    /\ currentIndex = N - 1
    /\ fetches # <<>>

-----------------------------------------------------------------------------
(* Properties of the Content Loader (SpecLoader) *)

\* the `path` parameter of the last request, as the handler sees it
PathParam == SearchParamsGet(query)

\* s contains two consecutive dots
HasDotDot(s) == \E i \in 1..(Len(s) - 1) : s[i] = "." /\ s[i + 1] = "."

\* the parameter is absent, empty or contains ".."
Rejected == ~PathParam.present \/ Len(PathParam.value) = 0 \/ HasDotDot(PathParam.value)

\* the file the parameter resolves to can be read
Readable == ReadFile(PathJoin(PathParam.value), files).ok

\* C2: a request whose path is absent, empty or contains ".." anywhere is
\* answered 400 { error: "Invalid path" } and no file is read
C2_InvalidPath400 ==
    (hist.op = "GET" /\ Rejected) =>
        /\ response.status = 400
        /\ response.body = [error |-> "Invalid path"]
        /\ ~readPath.attempted

\* a path with ".." in the middle that would resolve to an existing file
C2_Witness ==
    /\ hist.op = "GET"
    /\ query.value = <<"a", "/", ".", ".", "/", "a">>
    /\ <<cwd, publicDir, <<"a">>>> \in DOMAIN files
    /\ files[<<cwd, publicDir, <<"a">>>>].readable
    /\ response.status = 400

\* C3: a request whose path passes the guard but whose resolved file cannot
\* be read is answered 404 { error: "File not found" }
C3_Unreadable404 ==
    (hist.op = "GET" /\ ~Rejected /\ ~Readable) =>
        /\ response.status = 404
        /\ response.body = [error |-> "File not found"]

\* a file that exists but may not be read
C3_Witness ==
    /\ hist.op = "GET"
    /\ PathParam.value = <<"/", "a">>
    /\ <<cwd, publicDir, <<"a">>>> \in DOMAIN files
    /\ ~files[<<cwd, publicDir, <<"a">>>>].readable
    /\ response.status = 404

\* C4: a request whose path passes the guard and whose resolved file is
\* readable is answered 200 { content: t }, t the file's text, with no
\* `error` key
C4_Readable200 ==
    (hist.op = "GET" /\ ~Rejected /\ Readable) =>
        /\ response.status = 200
        /\ DOMAIN response.body = {"content"}
        /\ response.body.content = files[readPath.segs].text
        /\ readPath.segs[1] = cwd /\ readPath.segs[2] = publicDir

\* a written file is served with its text
C4_Witness ==
    /\ hist.op = "GET"
    /\ PathParam.value = <<"/", "a">>
    /\ response.status = 200
    /\ response.body.content = "v1"

\* C5: every sectionFiles[i].path contains no "..", passes the guard, and the
\* Loader answers it with the exact text of Section file i
C5_SectionsServed ==
    \A i \in 1..N :
        (hist.op = "GET" /\ PathParam.present /\ PathParam.value = sectionFiles[i].path) =>
            /\ ~HasDotDot(sectionFiles[i].path)
            /\ response.status = 200
            /\ response.body = [content |-> files[SectionFilePath(i)].text]

\* the request the navigator sends for the second section has been served
C5_Witness ==
    /\ hist.op = "GET"
    /\ query = FetchQuery(1)
    /\ response.status = 200
    /\ response.body.content = SectionText[2]

-----------------------------------------------------------------------------
(* advance and retreat *)

\* C6: whenever advance executes in a state with currentIndex < N-1, the
\* resulting currentIndex is the one held before plus 1
C6_AdvanceIncrements ==
    (hist.op = "handleNext" /\ hist.idx < N - 1) => currentIndex = hist.idx + 1

\* C7: whenever advance executes in a state with currentIndex = N-1,
\* currentIndex remains N-1
C7_AdvanceAtLastIsNoOp ==
    (hist.op = "handleNext" /\ hist.idx = N - 1) => currentIndex = N - 1

\* C8: retreat executed with currentIndex > 0 sets currentIndex to
\* currentIndex - 1, in the same step and without starting a timer
C8_RetreatDecrements ==
    [][(hist'.op = "handlePrev" /\ currentIndex > 0) =>
          /\ currentIndex' = currentIndex - 1
          /\ timers' = timers
          /\ loading' = loading]_vars

\* a retreat from the fourth section
C8_Witness ==
    /\ hist.op = "handlePrev"
    /\ hist.idx = 3
    /\ currentIndex = 2

\* C9: retreat executed with currentIndex = 0 leaves currentIndex at 0 and
\* issues no fetch, and the Previous control is disabled exactly when
\* currentIndex = 0
C9_RetreatAtFirstIsNoOp ==
    /\ [][(hist'.op = "handlePrev" /\ currentIndex = 0) =>
             /\ currentIndex' = 0
             /\ fetches' = fetches]_vars
    /\ [](PrevDisabled <=> currentIndex = 0)

\* a retreat at the first section
C9_Witness ==
    /\ route = "/presentation"
    /\ hist.op = "handlePrev"
    /\ hist.idx = 0
    /\ currentIndex = 0

\* C10: exactly one of the Next and Finish controls is present, Finish iff
\* currentIndex = N-1 and Next iff currentIndex < N-1, and /thank-you is
\* entered from the navigator only with currentIndex = N-1
C10_FinishOnlyAtLast ==
    /\ [](/\ FinishPresent <=> currentIndex = N - 1
          /\ NextPresent <=> currentIndex < N - 1
          /\ FinishPresent # NextPresent)
    /\ [][(route = "/presentation" /\ route' = "/thank-you") =>
             /\ currentIndex = N - 1
             /\ currentIndex' = N - 1]_vars

\* the presentation has been finished
C10_Witness ==
    /\ hist.op = "handleFinish"
    /\ route = "/thank-you"
    /\ currentIndex = N - 1

-----------------------------------------------------------------------------
(* finish, fetches and frames *)

\* seq without its k-th element
Without(seq, k) == SubSeq(seq, 1, k - 1) \o SubSeq(seq, k + 1, Len(seq))

\* the path the Content Loader sees in the request fetchContent sends for
\* index i
RequestedPath(i) == SearchParamsGet(FetchQuery(i)).value

\* the step is the completion of a fetch
Completion == hist'.op \in {"fetchResponse", "fetchFailure"}

\* the number of fetches the step issues
IssuedInStep ==
    Len(fetches') - Len(fetches) + (IF Completion THEN 1 ELSE 0)

\* C11: finish sets the route to /thank-you, leaves currentIndex, content
\* and loading unchanged, issues no fetch and starts no timer
C11_FinishFrame ==
    [][hist'.op = "handleFinish" =>
          /\ route' = "/thank-you"
          /\ currentIndex' = currentIndex
          /\ content' = content
          /\ loading' = loading
          /\ Len(fetches') = Len(fetches)
          /\ Len(timers') = Len(timers)]_vars

\* the presentation has been finished with the last section displayed
C11_Witness ==
    /\ hist.op = "handleFinish"
    /\ route = "/thank-you"
    /\ content = SectionText[N]

\* C12: on mount and on every change of currentIndex to a different value j
\* exactly one fetch is issued, for sectionFiles[j].path; an advance or
\* retreat that leaves currentIndex unchanged issues no fetch
C12_FetchPerIndexChange ==
    [][/\ hist'.op = "mount" =>
             /\ currentIndex' = 0
             /\ Len(fetches') = Len(fetches) + 1
             /\ fetches'[Len(fetches')] = 0
             /\ RequestedPath(0) = sectionFiles[1].path
       /\ (hist'.op \in {"handleNext", "handlePrev"} /\ currentIndex' # currentIndex) =>
             /\ fetches' = Append(fetches, currentIndex')
             /\ RequestedPath(currentIndex') = sectionFiles[currentIndex' + 1].path
       /\ (hist'.op \in {"handleNext", "handlePrev"} /\ currentIndex' = currentIndex) =>
             fetches' = fetches]_vars

\* a delayed advance that changed nothing, with no fetch in flight
C12_Witness ==
    /\ hist.op = "handleNext"
    /\ hist.idx = 1
    /\ currentIndex = 1
    /\ fetches = <<>>

\* C13: when a fetch completes with a transport failure, an unparsable body
\* or a response body carrying an `error` field, content becomes the
\* placeholder and currentIndex and loading are unchanged
C13_FailureShowsPlaceholder ==
    [][\A k \in 1..Len(fetches) :
          (/\ Completion
           /\ fetches' = Without(fetches, k)
           /\ fetches[k] # Stale
           /\ \/ hist'.op = "fetchFailure"
              \/ "error" \in DOMAIN GET(FetchQuery(fetches[k]), files).body) =>
              /\ content' = Placeholder
              /\ currentIndex' = currentIndex
              /\ loading' = loading]_vars

\* the Loader has answered 404 for the second section
C13_Witness ==
    /\ route = "/presentation"
    /\ hist.op = "fetchResponse"
    /\ content = Placeholder

\* C14: a failed fetch is never retried, and the fetches issued are one at
\* mount plus one for each change of currentIndex: every step issues one
\* fetch if it mounts the navigator or changes currentIndex, none otherwise
C14_NoRetry ==
    [][IssuedInStep =
          (IF hist'.op = "mount" \/ currentIndex' # currentIndex THEN 1 ELSE 0)]_vars

\* a fetch has failed and nothing is in flight
C14_Witness ==
    /\ route = "/presentation"
    /\ hist.op = "fetchFailure"
    /\ content = Placeholder
    /\ fetches = <<>>

\* C15: fetches are neither cancelled nor sequenced: whichever fetch
\* resolves sets content to the text of its own section, whatever the issue
\* order and whatever currentIndex is
C15_LastResolvedWins ==
    [][\A k \in 1..Len(fetches) :
          (/\ hist'.op = "fetchResponse"
           /\ fetches' = Without(fetches, k)
           /\ fetches[k] # Stale) =>
              content' = SectionText[fetches[k] + 1]]_vars

\* nothing is in flight and the content is that of section 0 while
\* currentIndex = 1
C15_Witness ==
    /\ route = "/presentation"
    /\ hist.op = "fetchResponse"
    /\ currentIndex = 1
    /\ content = SectionText[1]
    /\ fetches = <<>>
    /\ timers = <<>>

\* C16: after the navigation 0 -> 1 -> 0, once the fetches triggered by the
\* second transition have completed (and the last completion was not a
\* failure), the content equals the content displayed initially at index 0
C16_BackShowsInitialContent ==
    (/\ route = "/presentation"
     /\ scenario = "back"
     /\ \A k \in 1..Len(fetches) : fetches[k] # 0
     /\ content # Placeholder) =>
        content = SectionText[1]

\* C17: content is always the initial empty string, the text the Content
\* Loader returns for some section, or the placeholder
C17_ContentDefined ==
    content \in {"", Placeholder} \cup {SectionText[i] : i \in 1..N}

\* the placeholder is displayed for the section whose file is missing
C17_Witness ==
    /\ route = "/presentation"
    /\ hist.op = "fetchResponse"
    /\ currentIndex = 1
    /\ content = Placeholder
    /\ fetches = <<>>

\* C18: advance and retreat reset the scroll position to the top on every
\* execution, also when they leave currentIndex unchanged
C18_ScrollReset ==
    [][hist'.op \in {"handleNext", "handlePrev"} => scrollTop' = TRUE]_vars

\* an advance that left the index unchanged, with the window at the top
C18_Witness ==
    /\ hist.op = "handleNext"
    /\ currentIndex = hist.idx
    /\ currentIndex = N - 1
    /\ scrollTop

\* the operations the user starts
UserOps ==
    {"handleClick", "handleSectionChange", "handlePrev", "handleFinish",
     "handleGoHome", "scroll"}

\* C19 as stated: once the route is /thank-you, no user action changes it
C19_ThankYouTerminal ==
    [][(route = "/thank-you" /\ hist'.op \in UserOps) =>
          route' = "/thank-you"]_vars

\* C19 as amended: on /thank-you the only user action that changes the route
\* is the Home button, which sets it to /
C19_ThankYouLeadsHome ==
    [][(route = "/thank-you" /\ hist'.op \in UserOps /\ route' # route) =>
          /\ hist'.op = "handleGoHome"
          /\ route' = "/"]_vars

\* the Home button has been used
C19_Witness ==
    /\ hist.op = "handleGoHome"
    /\ route = "/"

\* C20: within a mounted navigator currentIndex is changed only by advance
\* and retreat: a fetch completion changes only content, the Next click
\* changes only loading, and finish does not change currentIndex
C20_IndexFrame ==
    [][/\ currentIndex' # currentIndex =>
             hist'.op \in {"handleNext", "handlePrev", "mount"}
       /\ Completion =>
             /\ currentIndex' = currentIndex
             /\ loading' = loading
             /\ route' = route
       /\ hist'.op = "handleSectionChange" =>
             /\ currentIndex' = currentIndex
             /\ content' = content
             /\ route' = route
             /\ loading' = TRUE
       /\ hist'.op = "handleFinish" => currentIndex' = currentIndex]_vars

\* Next has been clicked on a loaded section and the index has not moved
C20_Witness ==
    /\ hist.op = "handleSectionChange"
    /\ hist.idx = 2
    /\ currentIndex = 2
    /\ content = SectionText[3]
    /\ loading

-----------------------------------------------------------------------------
(* The Content Loader: what it serves, from where, and from which state *)

\* the segments of the public directory and of the content directory
PublicRoot == <<cwd, publicDir>>
ContentRoot == <<cwd, publicDir, <<"content">>>>

\* path p is directory d or lies below it
Within(p, d) == Len(p) >= Len(d) /\ SubSeq(p, 1, Len(d)) = d

\* path p lies below directory d
Below(p, d) == Len(p) > Len(d) /\ Within(p, d)

\* C21 as stated: the Loader only serves files within the content directory:
\* no accepted request is answered with the text of a file that lies under
\* public but outside public/content
C21_OnlyContentDirectory ==
    (hist.op = "GET" /\ response.status = 200) =>
        Below(readPath.segs, ContentRoot)

\* the answer the request path and the present file system determine
AnswerNow ==
    IF Rejected THEN [status |-> 400, body |-> [error |-> "Invalid path"]]
    ELSE IF Readable
         THEN [status |-> 200,
               body |-> [content |-> files[PathJoin(PathParam.value).segs].text]]
         ELSE [status |-> 404, body |-> [error |-> "File not found"]]

\* C22: the Loader keeps no state between requests: every response is the
\* one the request path and the file system at the time of the request
\* determine, whatever was answered to the same path before
C22_NoCaching ==
    hist.op = "GET" => response = AnswerNow

\* the same path was answered 404 before the file existed and is answered
\* 200 with the file's text now
C22_Witness ==
    /\ hist.op = "GET"
    /\ PathParam.value = <<"/", "a">>
    /\ hist.prev.status = 404
    /\ response.status = 200
    /\ response.body.content = "v1"

\* C29: no request makes the Loader read a file outside the public
\* directory: every read it attempts is of a path within cwd/public
C29_ReadsWithinPublic ==
    (hist.op = "GET" /\ readPath.attempted) =>
        Within(readPath.segs, PublicRoot)

\* an absolute-looking path is read below public
C29_Witness ==
    /\ hist.op = "GET"
    /\ PathParam.value = <<"/", "content", "/", "a">>
    /\ readPath.attempted
    /\ readPath.segs = <<cwd, publicDir, <<"content">>, <<"a">>>>
    /\ response.status = 404

-----------------------------------------------------------------------------
(* The Presentation Navigator: mounts, delayed advances, quiescence *)

\* the timers and fetches of the mounted navigator
LiveTimers == {k \in 1..Len(timers) : timers[k] # Stale}
LiveFetches == {k \in 1..Len(fetches) : fetches[k] # Stale}

\* the step is the firing of a 500 ms timer
TimerFired == hist'.op \in {"handleNext", "staleTimer"}

\* C23: every mount of the navigator starts from currentIndex 0, content ""
\* and loading false and issues a fetch for sectionFiles[0].path; no index,
\* content, timer or fetch of an earlier mount reaches the new one
C23_MountStartsFresh ==
    [][/\ hist'.op = "mount" =>
             /\ currentIndex' = 0
             /\ content' = ""
             /\ loading' = FALSE
             /\ Len(fetches') = Len(fetches) + 1
             /\ LiveFetches' = {Len(fetches')}
             /\ RequestedPath(fetches'[Len(fetches')]) = sectionFiles[1].path
             /\ LiveTimers' = {}
       /\ hist'.op = "staleTimer" =>
             /\ currentIndex' = currentIndex
             /\ loading' = loading
       /\ (Completion /\ Cardinality(LiveFetches') = Cardinality(LiveFetches)) =>
             content' = content]_vars

\* the presentation is entered again after it was left at the last section
C23_Witness ==
    /\ hist.op = "mount"
    /\ hist.idx = N - 1
    /\ route = "/presentation"
    /\ currentIndex = 0
    /\ content = ""
    /\ fetches = <<0>>

\* what a step does to the delayed advances
DelayedAdvanceStep ==
    /\ hist'.op = "handleSectionChange" =>
          /\ currentIndex' = currentIndex
          /\ loading' = TRUE
          /\ timers' = Append(timers, currentIndex)
    /\ (route' = route /\ loading /\ ~loading') => hist'.op = "handleNext"
    /\ TimerFired => timers' = Tail(timers)
    /\ (~TimerFired /\ hist'.op # "handleSectionChange") =>
          Len(timers') = Len(timers)

\* C24: a Next click leaves currentIndex as it is, sets loading true and
\* schedules one delayed advance; loading is set false only as a timer fires;
\* a timer leaves the pending ones only by firing, once, as the oldest one;
\* and timers go on firing for as long as one is pending
C24_DelayedAdvance ==
    /\ [][DelayedAdvanceStep]_vars
    /\ []<>(timers = <<>>) \/ []<><<TimerFired>>_vars

\* the timer of a Next click has fired and none is pending
C24_Witness ==
    /\ hist.op = "handleNext"
    /\ hist.idx = 0
    /\ currentIndex = 1
    /\ ~loading
    /\ timers = <<>>

\* C25: the delayed advance a Next click schedules at index i, i < N - 1,
\* sets currentIndex to i + 1 as it fires, whatever currentIndex is then
C25_AdvanceFromCaptured ==
    [][/\ hist'.op = "handleSectionChange" =>
             /\ currentIndex < N - 1
             /\ timers'[Len(timers')] = currentIndex
       /\ hist'.op = "handleNext" => currentIndex' = Head(timers) + 1]_vars

\* the second of two Next clicks at index 0 has fired at index 1 and left
\* the index at 1
C25_Witness ==
    /\ hist.op = "handleNext"
    /\ hist.idx = 1
    /\ currentIndex = 1
    /\ route = "/presentation"

\* C26 as stated: loading is true in exactly the states where a delayed
\* advance of the mounted navigator is pending
C26_LoadingIffPending ==
    route = "/presentation" => (loading <=> LiveTimers # {})

\* nothing is pending or in flight and the spinner is off
Quiescent ==
    /\ landingTimers = 0
    /\ timers = <<>>
    /\ fetches = <<>>
    /\ ~loading

\* C27: if the user acts only finitely often, the navigator reaches a state
\* with no timer pending, no fetch in flight and loading false, and it
\* stays in such a state until the next user action
C27_Quiescence ==
    /\ (<>[][hist'.op \notin UserOps]_vars) => <>[]Quiescent
    /\ [][(Quiescent /\ hist'.op \notin UserOps) => Quiescent']_vars

\* an advance and its fetch have completed
C27_Witness ==
    /\ Quiescent
    /\ route = "/presentation"
    /\ hist.op = "fetchResponse"
    /\ currentIndex = 1
    /\ content = SectionText[2]

\* C28: a completed fetch shows the placeholder exactly if the Loader
\* answered with a status other than 200 or the transport failed; the
\* Loader's body has an `error` key exactly if its status is not 200; a 200
\* response, of an empty file too, shows the file's text
C28_PlaceholderIffNot200 ==
    [][\A k \in 1..Len(fetches) :
          (Completion /\ fetches' = Without(fetches, k) /\ fetches[k] # Stale) =>
              LET r == GET(FetchQuery(fetches[k]), files)
                  p == PathJoin(RequestedPath(fetches[k])).segs
              IN /\ ("error" \in DOMAIN r.body) <=> (r.status # 200)
                 /\ (content' = Placeholder) <=>
                       (hist'.op = "fetchFailure" \/ r.status # 200)
                 /\ (hist'.op = "fetchResponse" /\ r.status = 200) =>
                       content' = files[p].text]_vars

\* the empty Section3.md is displayed as the empty text
C28_Witness ==
    /\ route = "/presentation"
    /\ hist.op = "fetchResponse"
    /\ currentIndex = 2
    /\ files[SectionFilePath(3)].text = ""
    /\ content = ""
    /\ fetches = <<>>

\* what a step does to the landing page and to the route
LandingAndRouteStep ==
    /\ hist'.op = "handleClick" =>
          /\ landingLoading'
          /\ landingTimers' = landingTimers + 1
          /\ route' = route
    /\ (route = "/" /\ route' = "/" /\ landingLoading) => landingLoading'
    /\ route' # route =>
          <<route, route'>> \in {<<"/", "/presentation">>,
                                 <<"/presentation", "/thank-you">>,
                                 <<"/thank-you", "/">>}

\* C30: a click on Get Started sets the landing page's loading true and
\* starts a timer; while the landing page stays, loading is not set back to
\* false; the route changes only from / to /presentation, from
\* /presentation to /thank-you and from /thank-you to /; and once a click
\* has started a timer the route becomes /presentation
C30_LandingAndRoutes ==
    /\ [][LandingAndRouteStep]_vars
    /\ [](landingTimers > 0 => <>(route = "/presentation"))

\* the landing page's timer has taken the user to the presentation
C30_Witness ==
    /\ hist.op = "mount"
    /\ hist.idx = 0
    /\ route = "/presentation"
    /\ landingLoading
    /\ landingTimers = 0

====
